---------------------------- MODULE Spec2Model ----------------------------
(***************************************************************************)
(* photo-import: the `import` command of src/photo_import/main.py.         *)
(*                                                                         *)
(* One behaviour of Spec is one run of import_ (one session): the command  *)
(* line arguments and the user configuration are fixed at process start,   *)
(* the operator's answers, the file system and the two rclone subprocesses *)
(* (lsf, copy) answer at the step where the code asks them.                *)
(*                                                                         *)
(* SpecBuild runs the command construction of import_ twice on inputs that *)
(* agree, to compare the two argument lists.                               *)
(***************************************************************************)
EXTENDS Integers, Sequences, FiniteSets, TLC

\* ------------------------------------------------------------------ bounds
\* Timestamps are 1..MaxTs; None stands for Python's None.
MaxTs == 2
\* The lsf listing has at most MaxLines lines.
MaxLines == 2
\* The configured include / exclude lists have at most this many items.
MaxInclude == 2
MaxExclude == 1

None == 0

Timestamps == 1..MaxTs
OptTimestamps == {None} \cup Timestamps

\* ------------------------------------------------ configuration and names
\* UserConfig.scenarios: name -> Scenario.source
Scenarios == [kitten |-> "DCIM"]

\* what the operator may type as SCENARIO
ScenarioNames == {"kitten", "puppy"}

TargetRoot == "/photos"

\* psutil.disk_partitions(): the mountpoints offered by questionary.select
Mountpoints == {"/media/sd"}

\* questionary's .ask() returns None when the operator cancels the prompt
NoChoice == "<None>"

\* the extensions a configuration may list
ConfigExts == {"jpg", "tmp"}

\* the suffixes of the files the source may hold (Path.suffix)
Suffixes == {".JPG", ".tmp"}

\* ------------------------------------------------------- pure conversions
\* file_path.suffix.lower().lstrip(".")
NormExt(suffix) ==
    CASE suffix = ".JPG" -> "jpg"
      [] suffix = ".jpg" -> "jpg"
      [] suffix = ".TMP" -> "tmp"
      [] suffix = ".tmp" -> "tmp"
      [] OTHER -> ""

\* datetime.isoformat()
IsoFormat(ts) ==
    CASE ts = 1 -> "2024-01-01T00:00:00"
      [] ts = 2 -> "2024-01-02T00:00:00"
      [] ts = 3 -> "2024-01-03T00:00:00"
      [] ts = 4 -> "2024-01-04T00:00:00"
      [] OTHER -> "2024-01-05T00:00:00"

\* f"*.{include_format}"
IncludeGlob(ext) ==
    CASE ext = "jpg" -> "*.jpg"
      [] ext = "tmp" -> "*.tmp"
      [] OTHER -> "*."

\* str(Path(options[choice]) / scenario_data.source)
JoinSource(mountpoint, source) ==
    CASE mountpoint = "/media/sd" /\ source = "DCIM" -> "/media/sd/DCIM"
      [] mountpoint = "/media/usb" /\ source = "DCIM" -> "/media/usb/DCIM"
      [] OTHER -> "/"

\* str(app.user_config.target_root / scenario)
JoinTarget(root, name) ==
    CASE root = "/photos" /\ name = "kitten" -> "/photos/kitten"
      [] OTHER -> "/photos/puppy"

Range(s) == {s[i] : i \in DOMAIN s}

\* sequences over S of length at most n
SeqsUpTo(S, n) == UNION {[1..k -> S] : k \in 0..n}

\* ----------------------------------------------------------- the listing
\* One line of `rclone lsf --format tp`: "timestamp;path".  shape "ok" is a
\* line with exactly one ";" and an ISO timestamp; the other shapes are the
\* lines line.split(";") or fromisoformat() reject.
OkLines == [shape : {"ok"}, ts : Timestamps, suffix : Suffixes]

BadLines == {[shape |-> "nosep", ts |-> None, suffix |-> ""],
             [shape |-> "multisep", ts |-> 1, suffix |-> ""],
             [shape |-> "badts", ts |-> None, suffix |-> ""]}

\* rclone applies --max-age from_ and --min-age to before listing
InWindow(ts, from, to) ==
    /\ (from = None \/ ts >= from)
    /\ (to = None \/ ts <= to)

Listings(from, to) ==
    SeqsUpTo({l \in OkLines : InWindow(l.ts, from, to)} \cup BadLines, MaxLines)

\* timestamp_str, file_path_str = line.split(";") ; fromisoformat(timestamp_str)
LineParses(line) == line.shape = "ok"

EmptyScan == [ok |-> TRUE, found_extensions |-> <<>>, oldest |-> None, newest |-> None]

FailedScan == [ok |-> FALSE, found_extensions |-> <<>>, oldest |-> None, newest |-> None]

\* found_extensions[ext] += 1 on a defaultdict(int)
Increment(found, ext) ==
    IF ext \in DOMAIN found
    THEN [found EXCEPT ![ext] = @ + 1]
    ELSE [e \in DOMAIN found \cup {ext} |-> IF e = ext THEN 1 ELSE found[e]]

OldestAfter(oldest, mtime) ==
    LET o == IF oldest = None THEN mtime ELSE oldest
    IN IF mtime < o THEN mtime ELSE o

\* a scan that takes the first timestamp as newest and never moves it
NewestNeverMoves(newest, mtime) ==
    IF newest = None THEN mtime ELSE newest

NewestAfter(newest, mtime) ==
    LET n == IF newest = None THEN mtime ELSE newest
    IN IF mtime > n THEN mtime ELSE n

\* the body of the for loop of scan_source_dir, for a line that parses
ScanStep(acc, line) ==
    [ok |-> TRUE,
     found_extensions |-> Increment(acc.found_extensions, NormExt(line.suffix)),
     oldest |-> OldestAfter(acc.oldest, line.ts),
     newest |-> NewestAfter(acc.newest, line.ts)]

\* a scan that catches the error of a bad line and goes on to the next one
RECURSIVE ScanLinesSkipping(_, _)
ScanLinesSkipping(lines, acc) ==
    IF lines = <<>> THEN acc
    ELSE IF ~LineParses(Head(lines)) THEN ScanLinesSkipping(Tail(lines), acc)
    ELSE ScanLinesSkipping(Tail(lines), ScanStep(acc, Head(lines)))

RECURSIVE ScanLines(_, _)
ScanLines(lines, acc) ==
    IF lines = <<>> THEN acc
    ELSE IF ~LineParses(Head(lines)) THEN FailedScan
    ELSE ScanLines(Tail(lines), ScanStep(acc, Head(lines)))

\* scan_source_dir(path, from_, to) on the stdout of rclone lsf
ScanSourceDir(lines) == ScanLines(lines, EmptyScan)

\* ------------------------------------------------------- classification
\* a classification that forgets the exclude list
UnexpectedIgnoringExclude(found, include, exclude) ==
    (DOMAIN found) \ Range(include)

\* set(found_extensions.keys()) - set(include), then -= set(exclude)
UnexpectedFormats(found, include, exclude) ==
    ((DOMAIN found) \ Range(include)) \ Range(exclude)

\* ------------------------------------------------- the copy command line
\* a command that never carries the dry-run flag
DryRunDropped(dry) == <<>>

DryRunArgs(dry) == IF dry THEN <<"--dry-run">> ELSE <<>>

MaxAgeArgs(from) == IF from # None THEN <<"--max-age", IsoFormat(from)>> ELSE <<>>

MinAgeArgs(to) == IF to # None THEN <<"--min-age", IsoFormat(to)>> ELSE <<>>

RECURSIVE IncludeArgs(_)
IncludeArgs(order) ==
    IF order = <<>> THEN <<>>
    ELSE <<"--include", IncludeGlob(Head(order))>> \o IncludeArgs(Tail(order))

\* The orders in which `for include_format in set(include)` may visit the
\* set: the iteration order of a set of str depends on the strings' hashes,
\* which are salted per process, and on the insertion history.
IncludeOrders(include) ==
    {o \in [1..Cardinality(Range(include)) -> Range(include)] :
        Range(o) = Range(include)}

BuildCommand(source, target, from, to, dry, order) ==
    <<"rclone", "--ignore-case", "copy", "-vv">>
        \o DryRunArgs(dry) \o MaxAgeArgs(from) \o MinAgeArgs(to)
        \o IncludeArgs(order) \o <<source, target>>

\* click.confirm without abort=True: a "no" only returns False
ConfirmNeverAborts(answer) == FALSE

\* click.confirm(..., abort=True) raises Abort when the answer is no
ConfirmAborts(answer) == ~answer

\* a lookup that does not fail on a missing name
ScenarioNeverUnknown(name) == FALSE

\* app.user_config.scenarios[scenario] raises KeyError
ScenarioUnknown(name) == name \notin DOMAIN Scenarios

\* the existence check left out
SourceNeverMissing(exists) == FALSE

\* not scenario_source.exists()
SourceMissing(exists) == ~exists

\* ------------------------------------------------------------------ state
VARIABLES
    pc,                 \* where import_ is
    scenario, from_, to, dry_run,   \* the command line
    include, exclude,   \* UserConfig.include, UserConfig.exclude
    scenario_source,    \* the computed source path, "" before it is computed
    source_exists,      \* what scenario_source.exists() returned
    listing,            \* stdout of rclone lsf
    scan_result,        \* the ScanResult
    unexpected_formats, \* the set computed after the scan
    warned,             \* the "unexpected file extensions" warning was printed
    cmd,                \* the copy command, <<>> before it is built
    answers,            \* the operator's answers to click.confirm, in order
    trace,              \* the external effects of the session, in order
    copy_calls,         \* the argument lists sp.run was given for the copy
    copy_rc,            \* exit code of the copy subprocess, -1 before it ends
    exit_code,          \* exit code of the process, -1 while it runs
    outcome,            \* how the session ended
    history,            \* the records of the scenario's history file
    other               \* SpecBuild: the second construction [include, cmd]

vars == <<pc, scenario, from_, to, dry_run, include, exclude, scenario_source,
          source_exists, listing, scan_result, unexpected_formats, warned, cmd,
          answers, trace, copy_calls, copy_rc, exit_code, outcome, history,
          other>>

args == <<scenario, from_, to, dry_run, include, exclude>>

NoOther == [include |-> <<>>, cmd |-> <<>>, built |-> FALSE]

Count(ev) == Cardinality({i \in DOMAIN trace : trace[i] = ev})

\* the process ends: sys.exit(code), an uncaught exception, click's Abort,
\* or the return of import_
Exit(code, how) ==
    /\ pc' = "exit"
    /\ exit_code' = code
    /\ outcome' = how

Init ==
    /\ pc = "start"
    /\ scenario \in ScenarioNames
    /\ from_ \in OptTimestamps
    /\ to \in OptTimestamps
    /\ dry_run \in BOOLEAN
    /\ include \in SeqsUpTo(ConfigExts, MaxInclude)
    /\ exclude \in SeqsUpTo(ConfigExts, MaxExclude)
    /\ scenario_source = ""
    /\ source_exists = FALSE
    /\ listing = <<>>
    /\ scan_result = EmptyScan
    /\ unexpected_formats = {}
    /\ warned = FALSE
    /\ cmd = <<>>
    /\ answers = <<>>
    /\ trace = <<>>
    /\ copy_calls = <<>>
    /\ copy_rc = -1
    /\ exit_code = -1
    /\ outcome = "running"
    /\ history = <<>>
    /\ other = NoOther

\* lines 176-184
ResolveScenario ==
    /\ pc = "start"
    /\ IF ScenarioUnknown(scenario)
       THEN Exit(1, "UnknownScenario")
       ELSE /\ pc' = "select"
            /\ UNCHANGED <<exit_code, outcome>>
    /\ UNCHANGED <<args, scenario_source, source_exists, listing, scan_result,
                   unexpected_formats, warned, cmd, answers, trace, copy_rc,
                   copy_calls, history, other>>

\* lines 186-196
SelectDevice ==
    /\ pc = "select"
    /\ trace' = Append(trace, "select")
    /\ \E choice \in Mountpoints \cup {NoChoice} :
         IF choice = NoChoice
         THEN /\ Exit(1, "Crash")
              /\ UNCHANGED scenario_source
         ELSE /\ scenario_source' = JoinSource(choice, Scenarios[scenario])
              /\ pc' = "check"
              /\ UNCHANGED <<exit_code, outcome>>
    /\ UNCHANGED <<args, source_exists, listing, scan_result,
                   unexpected_formats, warned, cmd, answers, copy_rc,
                   copy_calls, history, other>>

\* lines 198-207
CheckSource ==
    /\ pc = "check"
    /\ trace' = Append(trace, "exists")
    /\ \E exists \in BOOLEAN :
         /\ source_exists' = exists
         /\ IF SourceMissing(exists)
            THEN Exit(1, "SourceUnavailable")
            ELSE /\ pc' = "scan"
                 /\ UNCHANGED <<exit_code, outcome>>
    /\ UNCHANGED <<args, scenario_source, listing, scan_result,
                   unexpected_formats, warned, cmd, answers, copy_rc,
                   copy_calls, history, other>>

\* lines 209-229
Scan ==
    /\ pc = "scan"
    /\ trace' = Append(trace, "scan")
    /\ \E lines \in Listings(from_, to) :
         LET result == ScanSourceDir(lines)
             unexpected == UnexpectedFormats(result.found_extensions, include, exclude)
         IN /\ listing' = lines
            /\ IF ~result.ok
               THEN /\ Exit(1, "ScanError")
                    /\ UNCHANGED <<scan_result, unexpected_formats, warned>>
               ELSE /\ scan_result' = result
                    /\ unexpected_formats' = unexpected
                    /\ warned' = (unexpected # {})
                    /\ pc' = "confirm1"
                    /\ UNCHANGED <<exit_code, outcome>>
    /\ UNCHANGED <<args, scenario_source, source_exists, cmd, answers, copy_rc,
                   copy_calls, history, other>>

\* line 231
ConfirmTransfer ==
    /\ pc = "confirm1"
    /\ trace' = Append(trace, "confirm")
    /\ \E answer \in BOOLEAN :
         /\ answers' = Append(answers, answer)
         /\ IF ConfirmAborts(answer)
            THEN Exit(1, "Aborted")
            ELSE /\ pc' = "build"
                 /\ UNCHANGED <<exit_code, outcome>>
    /\ UNCHANGED <<args, scenario_source, source_exists, listing, scan_result,
                   unexpected_formats, warned, cmd, copy_rc, copy_calls, history,
                   other>>

\* lines 233-261
Build ==
    /\ pc = "build"
    /\ \E order \in IncludeOrders(include) :
         cmd' = BuildCommand(scenario_source, JoinTarget(TargetRoot, scenario),
                             from_, to, dry_run, order)
    /\ pc' = "confirm2"
    /\ UNCHANGED <<args, scenario_source, source_exists, listing, scan_result,
                   unexpected_formats, warned, answers, trace, copy_rc,
                   copy_calls, exit_code, outcome, history, other>>

\* line 263, and the start of sp.run(cmd) of line 265
ConfirmExecute ==
    /\ pc = "confirm2"
    /\ \E answer \in BOOLEAN :
         /\ answers' = Append(answers, answer)
         /\ IF ConfirmAborts(answer)
            THEN /\ Exit(1, "Aborted")
                 /\ trace' = Append(trace, "confirm")
                 /\ UNCHANGED copy_calls
            ELSE /\ pc' = "executing"
                 /\ trace' = trace \o <<"confirm", "copy">>
                 /\ copy_calls' = Append(copy_calls, cmd)
                 /\ UNCHANGED <<exit_code, outcome>>
    /\ UNCHANGED <<args, scenario_source, source_exists, listing, scan_result,
                   unexpected_formats, warned, cmd, copy_rc, history, other>>

\* line 265: sp.run(cmd) returns, whatever the exit code, and import_ returns
CopyReturns ==
    /\ pc = "executing"
    /\ \E rc \in {0, 1} : copy_rc' = rc
    /\ Exit(0, "Done")
    /\ UNCHANGED <<args, scenario_source, source_exists, listing, scan_result,
                   unexpected_formats, warned, cmd, answers, trace, copy_calls,
                   history, other>>

Next ==
    \/ ResolveScenario
    \/ SelectDevice
    \/ CheckSource
    \/ Scan
    \/ ConfirmTransfer
    \/ Build
    \/ ConfirmExecute
    \/ CopyReturns

Spec == Init /\ [][Next]_vars

\* ----------------------------------------- two constructions of the command
\* The state of a session that has just passed the first confirmation, with
\* an empty source; `other` is a second run of lines 237-258 whose arguments
\* agree with this run's and whose include list holds the same extensions.
InitBuild ==
    /\ pc = "build"
    /\ scenario = "kitten"
    /\ from_ \in OptTimestamps
    /\ to \in OptTimestamps
    /\ dry_run \in BOOLEAN
    /\ include \in SeqsUpTo(ConfigExts, MaxInclude)
    /\ exclude \in SeqsUpTo(ConfigExts, MaxExclude)
    /\ scenario_source \in {JoinSource(m, Scenarios[scenario]) : m \in Mountpoints}
    /\ source_exists = TRUE
    /\ listing = <<>>
    /\ scan_result = EmptyScan
    /\ unexpected_formats = {}
    /\ warned = FALSE
    /\ cmd = <<>>
    /\ answers = <<TRUE>>
    /\ trace = <<"select", "exists", "scan", "confirm">>
    /\ copy_calls = <<>>
    /\ copy_rc = -1
    /\ exit_code = -1
    /\ outcome = "running"
    /\ history = <<>>
    /\ \E inc \in SeqsUpTo(ConfigExts, MaxInclude) :
         /\ Range(inc) = Range(include)
         /\ other = [include |-> inc, cmd |-> <<>>, built |-> FALSE]

\* lines 237-258, run again
BuildOther ==
    /\ ~other.built
    /\ \E order \in IncludeOrders(other.include) :
         other' = [other EXCEPT
                     !.cmd = BuildCommand(scenario_source,
                                          JoinTarget(TargetRoot, scenario),
                                          from_, to, dry_run, order),
                     !.built = TRUE]
    /\ UNCHANGED <<pc, args, scenario_source, source_exists, listing,
                   scan_result, unexpected_formats, warned, cmd, answers, trace,
                   copy_calls, copy_rc, exit_code, outcome, history>>

NextBuild ==
    \/ Build
    \/ BuildOther

SpecBuild == InitBuild /\ [][NextBuild]_vars

\* ------------------------------------------------------------ the claims
Ended == pc = "exit"

\* the scan returned a ScanResult
Scanned == Count("scan") = 1 /\ outcome # "ScanError"

Positions(ev) == {i \in DOMAIN trace : trace[i] = ev}

\* the argument that follows flag in the command c, "" when c has no flag
ArgAfter(c, flag) ==
    IF \E i \in 1..(Len(c) - 1) : c[i] = flag
    THEN c[(CHOOSE i \in 1..(Len(c) - 1) : c[i] = flag) + 1]
    ELSE ""

MinOf(S) == CHOOSE x \in S : \A y \in S : x <= y

MaxOf(S) == CHOOSE x \in S : \A y \in S : x >= y

RECURSIVE SumOver(_, _)
SumOver(f, D) ==
    IF D = {} THEN 0
    ELSE LET d == CHOOSE x \in D : TRUE IN f[d] + SumOver(f, D \ {d})

\* C1: a session whose copy tool exited nonzero ends as TransferFailed with
\* a nonzero process exit code, never as a success.
C1_FailedCopyEndsTransferFailed ==
    (Ended /\ copy_rc > 0) => (outcome = "TransferFailed" /\ exit_code # 0)

\* C2: a session whose scenario name is not configured ends as
\* UnknownScenario with a nonzero exit code, and no device selection, no
\* existence check, no scan, no confirmation and no copy happens in it.
C2_UnknownScenarioFailsFirst ==
    (scenario \notin DOMAIN Scenarios /\ pc # "start") =>
        /\ Ended
        /\ outcome = "UnknownScenario"
        /\ exit_code # 0
        /\ trace = <<>>
        /\ copy_calls = <<>>

C2_Witness ==
    scenario \notin DOMAIN Scenarios /\ Ended /\ outcome = "UnknownScenario"

\* C3: a session whose computed source path does not exist ends as
\* SourceUnavailable with a nonzero exit code at the existence check, and
\* the scan tool and the copy tool run only on a source that was found.
C3_MissingSourceFails ==
    /\ (Count("exists") > 0 /\ ~source_exists) =>
          /\ Ended
          /\ outcome = "SourceUnavailable"
          /\ exit_code # 0
          /\ Count("scan") = 0
          /\ Count("copy") = 0
          /\ copy_calls = <<>>
    /\ (Count("scan") > 0 \/ Count("copy") > 0) =>
          (Count("exists") = 1 /\ source_exists)

C3_Witness ==
    Count("exists") = 1 /\ ~source_exists /\ outcome = "SourceUnavailable"

\* C4: the copy tool runs at most once, and only after the scan returned a
\* result and the operator accepted the two confirmations that follow it; a
\* declined confirmation ends the session as Aborted with no copy.
C4_CopyOnlyAfterBothConfirmations ==
    /\ Len(copy_calls) <= 1
    /\ Count("copy") = Len(copy_calls)
    /\ \A i \in Positions("copy") :
          /\ answers = <<TRUE, TRUE>>
          /\ scan_result.ok
          /\ \E j, k, l \in 1..i :
                /\ j < k /\ k < l /\ l < i
                /\ trace[j] = "scan"
                /\ trace[k] = "confirm"
                /\ trace[l] = "confirm"
    /\ (\E i \in DOMAIN answers : ~answers[i]) =>
          /\ Ended
          /\ outcome = "Aborted"
          /\ copy_calls = <<>>
          /\ Count("copy") = 0

C4_Witness ==
    /\ Len(copy_calls) = 1
    /\ answers = <<TRUE, TRUE>>
    /\ Ended

C4_WitnessDeclined ==
    answers = <<TRUE, FALSE>> /\ outcome = "Aborted"

\* C5: the unexpected set is the found extensions minus the included minus
\* the excluded ones, and the warning is printed exactly when it is not empty.
C5_UnexpectedIsFoundMinusIncludeMinusExclude ==
    Scanned =>
        LET F == DOMAIN scan_result.found_extensions
            I == Range(include)
            E == Range(exclude)
        IN /\ \A e \in F \cup I \cup E \cup unexpected_formats :
                 e \in unexpected_formats <=> (e \in F /\ e \notin I /\ e \notin E)
           /\ (F \subseteq I \cup E) => unexpected_formats = {}
           /\ unexpected_formats \cap (I \cap E) = {}
           /\ warned <=> unexpected_formats # {}

C5_Witness ==
    /\ Scanned
    /\ warned
    /\ \E e \in DOMAIN scan_result.found_extensions :
          e \in Range(include) /\ e \in Range(exclude)

\* C6: the scan of a listing with files returns the least and the greatest
\* timestamp of its lines as oldest and newest, and counts that sum to the
\* number of lines; the scan of an empty listing returns None, None and no
\* extension.
C6_ScanBoundsAndCounts ==
    Scanned =>
        LET times == {listing[i].ts : i \in DOMAIN listing}
            found == scan_result.found_extensions
        IN IF Len(listing) >= 1
           THEN /\ scan_result.oldest = MinOf(times)
                /\ scan_result.newest = MaxOf(times)
                /\ scan_result.oldest <= scan_result.newest
                /\ SumOver(found, DOMAIN found) = Len(listing)
           ELSE /\ scan_result.oldest = None
                /\ scan_result.newest = None
                /\ DOMAIN found = {}

C6_Witness ==
    /\ Scanned
    /\ Len(listing) >= 2
    /\ listing[1].ts > listing[2].ts
    /\ scan_result.oldest < scan_result.newest
    /\ Cardinality(DOMAIN scan_result.found_extensions) >= 2

C6_WitnessEmpty ==
    Scanned /\ listing = <<>> /\ Count("confirm") > 0

\* C7: the time bounds of the copy command are the resolved window: the
\* user's bound where one was given, else the scan's oldest (from) and
\* newest (to); a side is unbounded only if neither exists.
C7_CommandCarriesResolvedWindow ==
    cmd # <<>> =>
        LET from == IF from_ # None THEN from_ ELSE scan_result.oldest
            till == IF to # None THEN to ELSE scan_result.newest
        IN /\ ArgAfter(cmd, "--max-age") = (IF from = None THEN "" ELSE IsoFormat(from))
           /\ ArgAfter(cmd, "--min-age") = (IF till = None THEN "" ELSE IsoFormat(till))

\* C8: two constructions of the copy command from the same source,
\* destination, bounds, dry-run flag and set of include extensions give the
\* same argument sequence.
C8_ConstructionIsDeterministic ==
    (cmd # <<>> /\ other.built) => cmd = other.cmd

\* C9: a session that ends Done after a successful copy has appended one
\* record to the scenario's history.
C9_HistoryRecordedBeforeDone ==
    (Ended /\ outcome = "Done" /\ copy_rc = 0) => Len(history) = 1

\* C10: every copy invocation carries --dry-run exactly when dry_run is set,
\* carries --ignore-case, and ends with the source path then the
\* destination path.
C10_DryRunFlagAndEndpoints ==
    \A i \in DOMAIN copy_calls :
        LET c == copy_calls[i] IN
        /\ ("--dry-run" \in Range(c)) <=> dry_run
        /\ "--ignore-case" \in Range(c)
        /\ Len(c) >= 2
        /\ c[Len(c) - 1] = scenario_source
        /\ c[Len(c) - 1] = "/media/sd/DCIM"
        /\ c[Len(c)] = "/photos/kitten"

C10_Witness ==
    /\ Len(copy_calls) = 1
    /\ dry_run
    /\ "--dry-run" \in Range(copy_calls[1])

\* C11: a listing with a line that is not "timestamp;path" with a parseable
\* timestamp, at any position, makes scan_source_dir fail as a whole: no
\* ScanResult reaches the session, which ends in failure with a nonzero
\* exit code before any confirmation and without a copy.
C11_BadLineFailsWholeScan ==
    (Count("scan") = 1 /\ \E i \in DOMAIN listing : listing[i].shape # "ok") =>
        /\ ~ScanSourceDir(listing).ok
        /\ Ended
        /\ outcome = "ScanError"
        /\ exit_code # 0
        /\ scan_result = EmptyScan
        /\ unexpected_formats = {}
        /\ ~warned
        /\ Count("confirm") = 0
        /\ answers = <<>>
        /\ cmd = <<>>
        /\ Count("copy") = 0
        /\ copy_calls = <<>>

C11_Witness ==
    /\ Len(listing) = 2
    /\ listing[1].shape = "ok"
    /\ listing[2].shape \in {"nosep", "multisep", "badts"}
    /\ Ended
    /\ outcome = "ScanError"

=============================================================================
